---- MODULE Spec2Model ----
(***************************************************************************)
(* A model of ducktape's Service class (ducktape/services/service.py):     *)
(* node-spec resolution, node allocation and release against a cluster,    *)
(* the order index among same-typed services of a registry, the local      *)
(* scratch directory, the start/wait/stop/clean lifecycle with its         *)
(* timestamps, and run_parallel.                                           *)
(***************************************************************************)
EXTENDS Integers, Sequences, FiniteSets, TLC

VARIABLES
    inst,      \* the Service objects made so far, by number: a sequence of records
    services,  \* context.services, the registry: a sequence of instance numbers
    avail,     \* the cluster's nodes that are not handed out
    nlogger,   \* node.account._logger of every node of the cluster
    now,       \* time.time()
    fs,        \* the directories that exist on the test driver
    ndirs,     \* how many directories tempfile.mkdtemp() has made
    rp,        \* the run_parallel call in progress, if any
    last,      \* the call that returned or raised last
    hist       \* per Service object, what its calls so far have done

vars == <<inst, services, avail, nlogger, now, fs, ndirs, rp, last, hist>>

(***************************************************************************)
(* Bounds of the model.                                                    *)
(***************************************************************************)
NumLinux == 2       \* linux nodes of the cluster
NumWindows == 1     \* windows nodes of the cluster
MaxSvc == 2         \* constructor calls in the lifecycle specification
MaxCount == 2       \* largest count of a node request
MaxTime == 3        \* the clock stops being advanced here
MaxStep == 1        \* longest time one lifecycle call takes
MaxTimeout == 2     \* largest timeout_sec given to wait()
MaxNeed == 3        \* longest time a node's work needs
MaxOrder == 5       \* constructor calls in the registry specification
MaxPar == 2         \* most services handed to run_parallel

(***************************************************************************)
(* Values.                                                                 *)
(***************************************************************************)
\* Python's None for an optional argument: <<>> is None, <<v>> is the value v.
None == <<>>
Some(v) == <<v>>
IsNone(x) == x = <<>>
Val(x) == x[1]

\* The sentinel the timestamps are initialised to.
Unset == -1

LINUX == "linux"
WINDOWS == "windows"
SUPPORTED_OS_TYPES == {LINUX, WINDOWS}
\* The OS tags a caller may write in a node_spec: the supported ones and one more.
OSTags == SUPPORTED_OS_TYPES \cup {"solaris"}

\* The service classes (type(self)).
Types == {"A", "B"}

LinuxNodes == 1..NumLinux
WindowsNodes == (NumLinux + 1)..(NumLinux + NumWindows)
Nodes == LinuxNodes \cup WindowsNodes
OsOf(n) == IF n \in LinuxNodes THEN LINUX ELSE WINDOWS

\* The logger slot of a node: null, the context's logger, or a logger left behind
\* by whoever held the node before this run.
NoLogger == "null"
CtxLogger == "context.logger"
StaleLogger == "stale"

\* A node_spec dictionary: a function from some OS tags to counts.
NodeSpecs == UNION {[D -> 0..MaxCount] : D \in SUBSET OSTags}
NumArgs == {None} \cup {Some(k) : k \in 0..MaxCount}
SpecArgs == {None} \cup {Some(m) : m \in NodeSpecs}

RECURSIVE SumOver(_, _)
SumOver(f, D) ==
    IF D = {} THEN 0
    ELSE LET x == CHOOSE y \in D : TRUE
         IN f[x] + SumOver(f, D \ {x})

\* The number of nodes a node_spec asks for.
TotalCount(spec) == SumOver(spec, DOMAIN spec)

Min(S) == CHOOSE x \in S : \A y \in S : x <= y
Max2(a, b) == IF a >= b THEN a ELSE b

RECURSIVE Lowest(_, _)
\* The k lowest members of S, ascending.
Lowest(S, k) ==
    IF k = 0 \/ S = {} THEN <<>>
    ELSE <<Min(S)>> \o Lowest(S \ {Min(S)}, k - 1)

Range(q) == {q[i] : i \in DOMAIN q}

(***************************************************************************)
(* Service.setup_node_spec, lines 98-115.  Python's "not x" is true of     *)
(* None, of 0 and of the empty dictionary.                                 *)
(***************************************************************************)
NotNum(num) == IsNone(num) \/ Val(num) = 0
NotSpec(spec) == IsNone(spec) \/ DOMAIN Val(spec) = {}

Raised == [ok |-> FALSE, value |-> <<>>]
Returned(v) == [ok |-> TRUE, value |-> v]

\* setup_node_spec that returns a mapping without looking at its keys.
setup_node_spec_any_key(num_nodes, node_spec) ==
    IF NotNum(num_nodes) /\ NotSpec(node_spec) THEN Raised
    ELSE IF NotSpec(node_spec) THEN Returned((LINUX :> Val(num_nodes)))
    ELSE Returned(Val(node_spec))

\* setup_node_spec that uses the count whenever one is given.
setup_node_spec_count_first(num_nodes, node_spec) ==
    IF NotNum(num_nodes) /\ NotSpec(node_spec) THEN Raised
    ELSE IF ~NotNum(num_nodes) THEN Returned((LINUX :> Val(num_nodes)))
    ELSE IF \E os_type \in DOMAIN Val(node_spec) : os_type \notin SUPPORTED_OS_TYPES
         THEN Raised
         ELSE Returned(Val(node_spec))

setup_node_spec(num_nodes, node_spec) ==
    IF NotNum(num_nodes) /\ NotSpec(node_spec) THEN Raised
    ELSE IF NotSpec(node_spec) THEN Returned((LINUX :> Val(num_nodes)))
    ELSE IF \E os_type \in DOMAIN Val(node_spec) : os_type \notin SUPPORTED_OS_TYPES
         THEN Raised
         ELSE Returned(Val(node_spec))

(***************************************************************************)
(* The cluster.  alloc(node_spec) raises when too few nodes of some OS are *)
(* free, and otherwise hands out, per OS, as many free nodes as asked for: *)
(* which ones is the cluster's choice.  free(node) takes a node back.      *)
(***************************************************************************)
FreeOf(av, os) == {n \in av : OsOf(n) = os}
Wanted(spec, os) == IF os \in DOMAIN spec THEN spec[os] ELSE 0

ClusterCanAlloc(av, spec) ==
    \A os \in DOMAIN spec : spec[os] <= Cardinality(FreeOf(av, os))

Ascending(S) == Lowest(S, Cardinality(S))
Picks(S, k) == {P \in SUBSET S : Cardinality(P) = k}

\* What cluster.alloc(spec) may answer: that it raised, or the nodes handed out.
ClusterAlloc(av, spec) ==
    IF ~ClusterCanAlloc(av, spec) THEN {[ok |-> FALSE, nodes |-> <<>>]}
    ELSE {[ok |-> TRUE, nodes |-> Ascending(L) \o Ascending(W)] :
            L \in Picks(FreeOf(av, LINUX), Wanted(spec, LINUX)),
            W \in Picks(FreeOf(av, WINDOWS), Wanted(spec, WINDOWS))}

\* The answer of a cluster that hands out the lowest free nodes: one of the above.
LowestAlloc(av, spec) ==
    IF ~ClusterCanAlloc(av, spec) THEN [ok |-> FALSE, nodes |-> <<>>]
    ELSE [ok |-> TRUE,
          nodes |-> Lowest(FreeOf(av, LINUX), Wanted(spec, LINUX))
                       \o Lowest(FreeOf(av, WINDOWS), Wanted(spec, WINDOWS))]

\* str(node.account): the identifier kept of a node after it is freed.
AccountStr(n) == <<"account", n>>

(***************************************************************************)
(* A Service object.  A constructor call that raised leaves an object that *)
(* nobody holds (status "failed"); it is kept here with the nodes it took. *)
(***************************************************************************)
NewService(ty, t) ==
    [type |-> ty, status |-> "failed", node_spec |-> <<>>, nodes |-> <<>>,
     formerly |-> <<>>, initialized |-> FALSE, scratch |-> 0,
     init_time |-> t, start_time |-> Unset, start_duration |-> Unset,
     stop_time |-> Unset, stop_duration |-> Unset, clean_time |-> Unset]

Live(s) == s \in DOMAIN inst /\ inst[s].status = "live"

\* allocated that takes an instance with one node for an unallocated one.
allocated_above_one(nodes) == Len(nodes) > 1

\* Service.allocated, lines 172-175.
allocated(nodes) == Len(nodes) > 0

\* A dirty check that looks at the first node only.
FirstDirty_head_only(got, lg) ==
    IF got # <<>> /\ lg[got[1]] # NoLogger THEN 1 ELSE 0

\* The place of the first node of `got` whose logger slot is not null, or 0.
FirstDirty(got, lg) ==
    LET dirty == {i \in DOMAIN got : lg[got[i]] # NoLogger}
    IN IF dirty = {} THEN 0 ELSE Min(dirty)

\* The nodes whose logger slot the loop of lines 199-208 has bound when it ends.
BoundNodes(got, lg) ==
    LET k == FirstDirty(got, lg)
    IN IF k = 0 THEN Range(got) ELSE {got[i] : i \in 1..(k - 1)}

\* Service.allocate_nodes, lines 184-210, where `answer` is what cluster.alloc
\* answers if asked: the instance's nodes, the cluster's free nodes and the logger
\* slots after the call, whether the cluster was asked, and how the call ended.
allocate_nodes(self_nodes, av, lg, answer) ==
    IF allocated(self_nodes)
    THEN [result |-> "AlreadyAllocated", nodes |-> self_nodes, avail |-> av,
          nlogger |-> lg, requested |-> FALSE]
    ELSE IF ~answer.ok
    THEN [result |-> "AllocationError", nodes |-> self_nodes, avail |-> av,
          nlogger |-> lg, requested |-> TRUE]
    ELSE LET got == answer.nodes
         IN [result |-> IF FirstDirty(got, lg) = 0 THEN "ok" ELSE "DirtyNode",
             nodes |-> got,
             avail |-> av \ Range(got),
             nlogger |-> [n \in Nodes |->
                            IF n \in BoundNodes(got, lg) THEN CtxLogger ELSE lg[n]],
             requested |-> TRUE]

\* free() that returns the nodes to the cluster and keeps its references to them.
free_nodes_keeps(self) == self

\* free() that forgets the formerly allocated nodes as well.
free_nodes_forgets(self) == [self EXCEPT !.nodes = <<>>, !.formerly = <<>>]

\* free() that leaves the loggers on the nodes it returns.
free_loggers_left(self, lg) == lg

\* Service.free, lines 304-311.
free_nodes(self) == [self EXCEPT !.nodes = <<>>]
free_loggers(self, lg) ==
    [n \in Nodes |-> IF n \in Range(self.nodes) THEN NoLogger ELSE lg[n]]
free_cluster(self, av) == av \cup Range(self.nodes)

\* _order that counts the registered services of every type.
order_any_type(s, reg, insts) ==
    IF s \notin Range(reg) /\ ~insts[s].initialized
    THEN Len(reg)
    ELSE Min({i \in DOMAIN reg : reg[i] = s}) - 1

\* Service._order, lines 133-160, of instance s against the registry reg.
order(s, reg, insts) ==
    LET same_services == SelectSeq(reg, LAMBDA x : insts[x].type = insts[s].type)
    IN IF s \notin Range(reg) /\ ~insts[s].initialized
       THEN Len(same_services)
       ELSE Min({i \in DOMAIN same_services : same_services[i] = s}) - 1

\* Service.to_json, lines 352-367.
to_json(s) ==
    [cls_name |-> inst[s].type,
     lifecycle |-> [init_time |-> inst[s].init_time,
                    start_time |-> inst[s].start_time,
                    start_duration_seconds |-> inst[s].start_duration,
                    stop_time |-> inst[s].stop_time,
                    stop_duration_seconds |-> inst[s].stop_duration,
                    clean_time |-> inst[s].clean_time],
     order |-> order(s, services, inst),
     nodes |-> inst[s].formerly]

(***************************************************************************)
(* The calls.  Each action is one whole call; `last` records it.           *)
(***************************************************************************)
Call(op, s, result, args, out) ==
    [op |-> op, svc |-> s, result |-> result, args |-> args, out |-> out]

\* The history kept of an instance: whether its last allocation succeeded and no
\* free() has followed (held), whether close() has run since the scratch directory
\* was made, whether start() has been called and has completed, and the order
\* index read in the constructor before and right after registration.
NewHistory(held, early, registered) ==
    [held |-> held, closed |-> FALSE, start_called |-> FALSE,
     start_completed |-> FALSE, order_early |-> early,
     order_registered |-> registered]

\* No run_parallel call is in progress.
Idle == rp.phase \in {"idle", "done", "raised"}

\* Service.__init__, lines 55-96: the next Service object, of class ty.
Construct(ty, num_nodes, node_spec, answer) ==
    LET s == Len(inst) + 1
        r == setup_node_spec(num_nodes, node_spec)
        a == allocate_nodes(<<>>, avail, nlogger, answer)
        self0 == NewService(ty, now)
        self1 == [self0 EXCEPT !.node_spec = r.value, !.nodes = a.nodes]
        \* line 210 reads self._order before the instance is registered
        early == order(s, services, Append(inst, self1))
        self2 == [self1 EXCEPT !.status = "live", !.initialized = TRUE,
                               !.formerly = [i \in DOMAIN a.nodes |->
                                               AccountStr(a.nodes[i])]]
    IN /\ Idle
       /\ answer \in ClusterAlloc(avail, r.value)
       /\ IF ~r.ok
          THEN /\ inst' = Append(inst, self0)
               /\ hist' = Append(hist, NewHistory(FALSE, -1, -1))
               /\ last' = Call("__init__", s, "ConfigurationError",
                               <<num_nodes, node_spec>>,
                               [requested |-> FALSE, got |-> <<>>])
               /\ UNCHANGED <<services, avail, nlogger>>
          ELSE /\ avail' = a.avail
               /\ nlogger' = a.nlogger
               /\ IF a.result = "ok"
                  THEN /\ inst' = Append(inst, self2)
                       /\ services' = Append(services, s)
                       /\ hist' = Append(hist, NewHistory(TRUE, early,
                                            order(s, services', inst')))
                  ELSE /\ inst' = Append(inst, self1)
                       /\ services' = services
                       /\ hist' = Append(hist, NewHistory(FALSE, -1, -1))
               /\ last' = Call("__init__", s, a.result, <<num_nodes, node_spec>>,
                               [requested |-> TRUE, got |-> answer.nodes])
       /\ UNCHANGED <<now, fs, ndirs, rp>>

\* allocate_nodes() called on a constructed instance.
AllocateNodes(s, answer) ==
    LET a == allocate_nodes(inst[s].nodes, avail, nlogger, answer)
    IN /\ Idle /\ Live(s)
       /\ answer \in ClusterAlloc(avail, inst[s].node_spec)
       /\ inst' = [inst EXCEPT ![s].nodes = a.nodes]
       /\ avail' = a.avail
       /\ nlogger' = a.nlogger
       /\ hist' = [hist EXCEPT ![s].held = (a.result = "ok") \/ @]
       /\ last' = Call("allocate_nodes", s, a.result, <<>>,
                       [requested |-> a.requested,
                        got |-> IF a.requested THEN answer.nodes ELSE <<>>])
       /\ UNCHANGED <<services, now, fs, ndirs, rp>>

\* free()
Free(s) ==
    /\ Idle /\ Live(s)
    /\ inst' = [inst EXCEPT ![s] = free_nodes(inst[s])]
    /\ nlogger' = free_loggers(inst[s], nlogger)
    /\ avail' = free_cluster(inst[s], avail)
    /\ hist' = [hist EXCEPT ![s].held = FALSE]
    /\ last' = Call("free", s, "ok", <<>>, [returned |-> inst[s].nodes])
    /\ UNCHANGED <<services, now, fs, ndirs, rp>>

(***************************************************************************)
(* The lifecycle.  The per-node hooks belong to the concrete service       *)
(* class; a call's inputs say which hook call raises and how long the      *)
(* call takes.                                                             *)
(***************************************************************************)
\* start() that stamps the start time on every call.
start_restamps(self, t, failAt, d) ==
    LET started == [self EXCEPT !.start_time = t]
    IN IF failAt # 0 THEN started
       ELSE IF started.start_duration < 0
       THEN [started EXCEPT !.start_duration = (t + d) - started.start_time]
       ELSE started

\* Service.start, lines 212-240, entered at time t and taking d.  failAt is the
\* place of the first node whose start_node raises, 0 when none does; what
\* stop_node and clean_node raise in the pre-pass of lines 220-233 is swallowed.
start(self, t, failAt, d) ==
    LET started == IF self.start_time < 0
                   THEN [self EXCEPT !.start_time = t]
                   ELSE self
    IN IF failAt # 0 THEN started
       ELSE IF started.start_duration < 0
       THEN [started EXCEPT !.start_duration = (t + d) - started.start_time]
       ELSE started

\* Service.stop, lines 273-283; failAt is the first node whose stop_node raises.
stop(self, t, failAt, d) ==
    LET stopping == [self EXCEPT !.stop_time = t]
    IN IF failAt # 0 THEN stopping
       ELSE [stopping EXCEPT !.stop_duration = (t + d) - stopping.stop_time]

\* Service.clean, lines 289-297.
clean(self, t) == [self EXCEPT !.clean_time = t]

\* wait_node(node, timeout_sec) of a service whose node is done at time `finish`,
\* called at time t: it blocks until the node is done or the timeout is over.
wait_node(finish, t, timeout_sec) ==
    IF finish <= t + timeout_sec
    THEN [finished |-> TRUE, t |-> Max2(t, finish)]
    ELSE [finished |-> FALSE, t |-> t + timeout_sec]

RECURSIVE wait_loop_own_budget(_, _, _, _, _)
\* A loop that gives every node the whole timeout, counted from its own call.
wait_loop_own_budget(nodes, i, t, end, finish) ==
    IF i > Len(nodes) THEN [unfinished |-> <<>>, calls |-> <<>>, t |-> t]
    ELSE LET w == wait_node(finish[i], t, end - t)
             rest == wait_loop_own_budget(nodes, i + 1, w.t, end + (w.t - t), finish)
         IN [unfinished |-> (IF w.finished THEN <<>> ELSE <<nodes[i]>>)
                                \o rest.unfinished,
             calls |-> <<<<nodes[i], end - t>>>> \o rest.calls,
             t |-> rest.t]

RECURSIVE wait_loop(_, _, _, _, _)
\* The loop of lines 254-261 from node i on, at time t: the unfinished nodes, the
\* wait_node calls made (node, timeout given) and the time the loop ends.
wait_loop(nodes, i, t, end, finish) ==
    IF i > Len(nodes) THEN [unfinished |-> <<>>, calls |-> <<>>, t |-> t]
    ELSE IF end > t
    THEN LET w == wait_node(finish[i], t, end - t)
             rest == wait_loop(nodes, i + 1, w.t, end, finish)
         IN [unfinished |-> (IF w.finished THEN <<>> ELSE <<nodes[i]>>)
                                \o rest.unfinished,
             calls |-> <<<<nodes[i], end - t>>>> \o rest.calls,
             t |-> rest.t]
    ELSE LET rest == wait_loop(nodes, i + 1, t, end, finish)
         IN [unfinished |-> <<nodes[i]>> \o rest.unfinished,
             calls |-> rest.calls,
             t |-> rest.t]

\* Service.wait, lines 246-265, entered at time t; need[i] is how long after t the
\* work of the i-th node is done.
wait(self, t, timeout_sec, need) ==
    wait_loop(self.nodes, 1, t, t + timeout_sec,
              [i \in DOMAIN self.nodes |-> t + need[i]])

WaitResult(w) == IF w.unfinished # <<>> THEN "TimeoutError" ELSE "ok"

\* The default of wait()'s timeout_sec.
DefaultTimeout == 600

FailPlaces(s) == 0..Len(inst[s].nodes)
HookResult(failAt) == IF failAt = 0 THEN "ok" ELSE "HookError"

Started(s, failAt) ==
    [hist EXCEPT ![s].start_called = TRUE,
                 ![s].start_completed = (failAt = 0) \/ @]

Start(s, failAt, d) ==
    /\ Idle /\ Live(s)
    /\ inst' = [inst EXCEPT ![s] = start(inst[s], now, failAt, d)]
    /\ now' = now + d
    /\ hist' = Started(s, failAt)
    /\ last' = Call("start", s, HookResult(failAt), <<failAt, d>>, <<>>)
    /\ UNCHANGED <<services, avail, nlogger, fs, ndirs, rp>>

Wait(s, timeout_sec, need) ==
    LET w == wait(inst[s], now, timeout_sec, need)
    IN /\ Idle /\ Live(s)
       /\ w.t <= Max2(MaxTime, now)
       /\ now' = w.t
       /\ last' = Call("wait", s, WaitResult(w), <<timeout_sec, need>>,
                       [unfinished |-> w.unfinished, calls |-> w.calls])
       /\ UNCHANGED <<inst, services, avail, nlogger, fs, ndirs, rp, hist>>

Stop(s, failAt, d) ==
    /\ Idle /\ Live(s)
    /\ inst' = [inst EXCEPT ![s] = stop(inst[s], now, failAt, d)]
    /\ now' = now + d
    /\ last' = Call("stop", s, HookResult(failAt), <<failAt, d>>, <<>>)
    /\ UNCHANGED <<services, avail, nlogger, fs, ndirs, rp, hist>>

Clean(s, failAt, d) ==
    /\ Idle /\ Live(s)
    /\ inst' = [inst EXCEPT ![s] = clean(inst[s], now)]
    /\ now' = now + d
    /\ last' = Call("clean", s, HookResult(failAt), <<failAt, d>>, <<>>)
    /\ UNCHANGED <<services, avail, nlogger, fs, ndirs, rp, hist>>

\* Time passes between two calls.
Tick ==
    /\ Idle
    /\ now < MaxTime
    /\ now' = now + 1
    /\ UNCHANGED <<inst, services, avail, nlogger, fs, ndirs, rp, last, hist>>

(***************************************************************************)
(* The per-node hooks.  A service class overrides some of them; a call of   *)
(* one it overrides raises on the nodes in `raises` (pairs of hook and      *)
(* position of the node).  The hooks of Service itself, lines 242-244,      *)
(* 267-271 and 285-287, raise NotImplementedError; its clean_node, lines    *)
(* 299-302, logs a warning and returns.                                     *)
(***************************************************************************)
Hooks == {"start_node", "wait_node", "stop_node", "clean_node"}

hook(impl, raises, name, i) ==
    IF name \notin impl
    THEN IF name = "clean_node" THEN "ok" ELSE "NotImplementedError"
    ELSE IF <<name, i>> \in raises THEN "HookError" ELSE "ok"

\* A pre-pass that leaves a node as soon as one of its hooks raises.
start_prepass_skips_clean(nodes, impl, raises) ==
    SelectSeq([k \in 1..(2 * Len(nodes)) |->
                  LET i == (k + 1) \div 2
                      name == IF k % 2 = 1 THEN "stop_node" ELSE "clean_node"
                  IN <<name, nodes[i], hook(impl, raises, name, i), i>>],
              LAMBDA c : c[1] = "stop_node"
                            \/ hook(impl, raises, "stop_node", c[4]) = "ok")

\* The pre-pass of start(), lines 219-232: the hook calls made, with their outcomes.
start_prepass(nodes, impl, raises) ==
    [k \in 1..(2 * Len(nodes)) |->
        LET i == (k + 1) \div 2
            name == IF k % 2 = 1 THEN "stop_node" ELSE "clean_node"
        IN <<name, nodes[i], hook(impl, raises, name, i)>>]

\* The first node at which the hook `name` raises, 0 if it raises at none.
FirstRaise(nodes, impl, raises, name) ==
    LET bad == {i \in DOMAIN nodes : hook(impl, raises, name, i) # "ok"}
    IN IF bad = {} THEN 0 ELSE Min(bad)

\* The loop of lines 235-237 (start_node) or 279-281 (stop_node): the calls made up
\* to the first that raises.
hook_loop(nodes, impl, raises, name) ==
    LET failAt == FirstRaise(nodes, impl, raises, name)
    IN [k \in 1..(IF failAt = 0 THEN Len(nodes) ELSE failAt) |->
           <<name, nodes[k], hook(impl, raises, name, k)>>]

HookLoopResult(calls) ==
    IF calls # <<>> /\ calls[Len(calls)][3] # "ok" THEN calls[Len(calls)][3] ELSE "ok"

\* start() of an instance of a class that overrides the hooks in impl; the hook
\* calls take d on the clock.
StartHooks(s, impl, raises, d) ==
    LET failAt == FirstRaise(inst[s].nodes, impl, raises, "start_node")
        calls == start_prepass(inst[s].nodes, impl, raises)
                    \o hook_loop(inst[s].nodes, impl, raises, "start_node")
    IN /\ Idle /\ Live(s)
       /\ inst' = [inst EXCEPT ![s] = start(inst[s], now, failAt, d)]
       /\ now' = now + d
       /\ hist' = Started(s, failAt)
       /\ last' = Call("start", s, HookLoopResult(calls), <<failAt, d>>,
                       [calls |-> calls])
       /\ UNCHANGED <<services, avail, nlogger, fs, ndirs, rp>>

\* stop() of an instance of a class that overrides the hooks in impl; the hook
\* calls take d on the clock.
StopHooks(s, impl, raises, d) ==
    LET failAt == FirstRaise(inst[s].nodes, impl, raises, "stop_node")
        calls == hook_loop(inst[s].nodes, impl, raises, "stop_node")
    IN /\ Idle /\ Live(s)
       /\ inst' = [inst EXCEPT ![s] = stop(inst[s], now, failAt, d)]
       /\ now' = now + d
       /\ last' = Call("stop", s, HookLoopResult(calls), <<failAt, d>>,
                       [calls |-> calls])
       /\ UNCHANGED <<services, avail, nlogger, fs, ndirs, rp, hist>>

\* wait() of an instance of a class that does not override wait_node: the first
\* node is reached before the deadline unless timeout_sec is 0 (lines 254-258).
WaitUnimplemented(s, timeout_sec) ==
    LET nodes == inst[s].nodes
        reached == nodes # <<>> /\ timeout_sec > 0
    IN /\ Idle /\ Live(s)
       /\ last' = Call("wait", s,
                       IF reached THEN "NotImplementedError"
                       ELSE IF nodes # <<>> THEN "TimeoutError" ELSE "ok",
                       <<timeout_sec, <<>>>>,
                       [unfinished |-> IF reached THEN <<>> ELSE nodes,
                        calls |-> IF reached THEN <<<<nodes[1], timeout_sec>>>>
                                  ELSE <<>>])
       /\ UNCHANGED <<inst, services, avail, nlogger, now, fs, ndirs, rp, hist>>

(***************************************************************************)
(* The local scratch directory.  A path is a number; tempfile.mkdtemp()    *)
(* makes a directory no earlier call has made.                             *)
(***************************************************************************)
\* An access that makes a directory every time.
local_scratch_dir_always_new(self, fresh) == fresh

\* Service.local_scratch_dir, lines 121-126: the value of self._local_scratch_dir
\* after the access (0 is None), given the path mkdtemp() would return.
local_scratch_dir(self, fresh) ==
    IF self.scratch = 0 THEN fresh ELSE self.scratch

\* Service.close, lines 333-337: the directories left.
close(self, dirs) ==
    IF self.scratch # 0 /\ self.scratch \in dirs
    THEN dirs \ {self.scratch}
    ELSE dirs

ScratchDir(s) ==
    LET path == local_scratch_dir(inst[s], ndirs + 1)
    IN /\ Idle /\ Live(s)
       /\ inst' = [inst EXCEPT ![s].scratch = path]
       /\ ndirs' = IF inst[s].scratch = 0 THEN ndirs + 1 ELSE ndirs
       /\ fs' = IF inst[s].scratch = 0 THEN fs \cup {ndirs + 1} ELSE fs
       /\ last' = Call("local_scratch_dir", s, "ok", <<>>,
                       [path |-> path, exists |-> path \in fs'])
       /\ UNCHANGED <<services, avail, nlogger, now, rp, hist>>

Close(s) ==
    /\ Idle /\ Live(s)
    /\ fs' = close(inst[s], fs)
    /\ hist' = [hist EXCEPT ![s].closed = (inst[s].scratch # 0) \/ @]
    /\ last' = Call("close", s, "ok", <<>>, [removed |-> fs \ fs'])
    /\ UNCHANGED <<inst, services, avail, nlogger, now, ndirs, rp>>

(***************************************************************************)
(* Service.run_parallel, lines 339-350, one call of start(), wait() or     *)
(* stop() per step.  rp.log lists the calls made, in order.                *)
(***************************************************************************)
AfterPhase(phase) ==
    CASE phase = "start" -> "wait"
      [] phase = "wait" -> "stop"
      [] OTHER -> "done"

\* run() on each service in turn: start, wait and stop of one before the next.
rp_next_one_by_one(phase, i, n) ==
    CASE phase = "start" -> [phase |-> "wait", i |-> i]
      [] phase = "wait" -> [phase |-> "stop", i |-> i]
      [] OTHER -> IF i < n THEN [phase |-> "start", i |-> i + 1]
                  ELSE [phase |-> "done", i |-> 1]

\* The loop position after the i-th of n services got its call of `phase`.
rp_next(phase, i, n) ==
    IF i < n THEN [phase |-> phase, i |-> i + 1]
    ELSE [phase |-> AfterPhase(phase), i |-> 1]

\* A runner that goes on to the next call when one has raised.
RPAfter_goes_on(op, s, result) ==
    LET nx == rp_next(rp.phase, rp.i, Len(rp.args))
    IN [rp EXCEPT !.phase = nx.phase, !.i = nx.i,
                  !.log = Append(@, <<op, s, result>>)]

RPAfter(op, s, result) ==
    LET nx == rp_next(rp.phase, rp.i, Len(rp.args))
    IN IF result # "ok"
       THEN [rp EXCEPT !.phase = "raised", !.log = Append(@, <<op, s, result>>)]
       ELSE [rp EXCEPT !.phase = nx.phase, !.i = nx.i,
                       !.log = Append(@, <<op, s, result>>)]

RunParallel(args) ==
    /\ Idle
    /\ now <= MaxTime
    /\ \A i \in DOMAIN args : Live(args[i])
    \* with no argument the three loops run over nothing and the call is over
    /\ rp' = [phase |-> IF args = <<>> THEN "done" ELSE "start",
              args |-> args, i |-> 1, log |-> <<>>]
    /\ last' = Call("run_parallel", 0, "running", args, <<>>)
    /\ UNCHANGED <<inst, services, avail, nlogger, now, fs, ndirs, hist>>

\* Service.run, lines 313-317: start(), wait() and stop() of one service, the
\* sequence run_parallel makes for a single argument.
Run(s) ==
    /\ Idle
    /\ now <= MaxTime
    /\ Live(s)
    /\ rp' = [phase |-> "start", args |-> <<s>>, i |-> 1, log |-> <<>>]
    /\ last' = Call("run", s, "running", <<>>, <<>>)
    /\ UNCHANGED <<inst, services, avail, nlogger, now, fs, ndirs, hist>>

RPStart(failAt, d) ==
    LET s == rp.args[rp.i]
    IN /\ rp.phase = "start"
       /\ failAt \in FailPlaces(s)
       /\ inst' = [inst EXCEPT ![s] = start(inst[s], now, failAt, d)]
       /\ now' = now + d
       /\ rp' = RPAfter("start", s, HookResult(failAt))
       /\ hist' = Started(s, failAt)
       /\ last' = Call("start", s, HookResult(failAt), <<failAt, d>>, <<>>)
       /\ UNCHANGED <<services, avail, nlogger, fs, ndirs>>

RPWait(need) ==
    LET s == rp.args[rp.i]
        w == wait(inst[s], now, DefaultTimeout, need)
    IN /\ rp.phase = "wait"
       /\ now' = w.t
       /\ rp' = RPAfter("wait", s, WaitResult(w))
       /\ last' = Call("wait", s, WaitResult(w), <<DefaultTimeout, need>>,
                       [unfinished |-> w.unfinished, calls |-> w.calls])
       /\ UNCHANGED <<inst, services, avail, nlogger, fs, ndirs, hist>>

RPStop(failAt, d) ==
    LET s == rp.args[rp.i]
    IN /\ rp.phase = "stop"
       /\ failAt \in FailPlaces(s)
       /\ inst' = [inst EXCEPT ![s] = stop(inst[s], now, failAt, d)]
       /\ now' = now + d
       /\ rp' = RPAfter("stop", s, HookResult(failAt))
       /\ last' = Call("stop", s, HookResult(failAt), <<failAt, d>>, <<>>)
       /\ UNCHANGED <<services, avail, nlogger, fs, ndirs, hist>>

(***************************************************************************)
(* The inputs of the calls.                                                *)
(***************************************************************************)
Insts == DOMAIN inst

\* How long a call may take before the clock's bound.
Steps == {d \in 0..MaxStep : now + d <= MaxTime}

\* need[i] for every node of s, each drawn from S.
Needs(s, S) == [DOMAIN inst[s].nodes -> S]

\* The lists of up to n different instances.
RECURSIVE Lists(_, _)
Lists(S, n) ==
    IF n = 0 THEN {<<>>}
    ELSE LET shorter == Lists(S, n - 1)
         IN shorter \cup {Append(q, x) : q \in shorter, x \in S}
DistinctLists(S, n) ==
    {q \in Lists(S, n) : q # <<>> /\ \A i, j \in DOMAIN q : i # j => q[i] # q[j]}

(***************************************************************************)
(* The state before the first constructor call.  At most one node carries  *)
(* a logger that an earlier holder did not clear.                          *)
(***************************************************************************)
StaleSets == {{}} \cup {{n} : n \in Nodes}

Init ==
    /\ inst = <<>>
    /\ services = <<>>
    /\ avail = Nodes
    /\ \E stale \in StaleSets :
          nlogger = [n \in Nodes |-> IF n \in stale THEN StaleLogger ELSE NoLogger]
    /\ now = 1
    /\ fs = {}
    /\ ndirs = 0
    /\ rp = [phase |-> "idle", args |-> <<>>, i |-> 0, log |-> <<>>]
    /\ last = Call("none", 0, "ok", <<>>, <<>>)
    /\ hist = <<>>

\* The clean cluster: no node carries a logger.
InitClean == Init /\ \A n \in Nodes : nlogger[n] = NoLogger


\* What the cluster may answer to the request the constructor arguments make.
CtorAnswers(num_nodes, node_spec) ==
    ClusterAlloc(avail, setup_node_spec(num_nodes, node_spec).value)
AllocAnswers(s) == ClusterAlloc(avail, inst[s].node_spec)

\* A few constructor arguments: counts, a mapping over two OSs, a mapping that asks
\* for nothing, no argument at all, an unsupported OS.
FewArgs ==
    {<<Some(1), None>>, <<Some(MaxCount), None>>,
     <<None, Some((LINUX :> 1) @@ (WINDOWS :> 1))>>,
     <<None, Some((LINUX :> 0))>>,
     <<None, None>>,
     <<Some(1), Some(("solaris" :> 1))>>}

(***************************************************************************)
(* Spec: allocation and release by several services on one cluster whose   *)
(* nodes may carry stale loggers; the cluster hands out the lowest free    *)
(* nodes.                                                                  *)
(***************************************************************************)
Next ==
    \/ /\ Len(inst) < MaxSvc
       /\ \E args \in FewArgs :
             Construct("A", args[1], args[2],
                       LowestAlloc(avail, setup_node_spec(args[1], args[2]).value))
    \/ \E s \in Insts : AllocateNodes(s, LowestAlloc(avail, inst[s].node_spec))
    \/ \E s \in Insts : Free(s)

Spec == Init /\ [][Next]_vars

(***************************************************************************)
(* SpecLife: one service, every constructor argument, every call; the      *)
(* calls take no time on the clock.                                        *)
(***************************************************************************)
NextLife ==
    \/ /\ Len(inst) < 1
       /\ \E num_nodes \in NumArgs, node_spec \in SpecArgs :
             \E answer \in CtorAnswers(num_nodes, node_spec) :
                Construct("A", num_nodes, node_spec, answer)
    \/ \E s \in Insts : \E answer \in AllocAnswers(s) : AllocateNodes(s, answer)
    \/ \E s \in Insts : Free(s)
    \/ \E s \in Insts : \E failAt \in FailPlaces(s) : Start(s, failAt, 0)
    \/ \E s \in Insts : \E t \in {0, 1} :
          Wait(s, t, [i \in DOMAIN inst[s].nodes |-> 0])
    \/ \E s \in Insts : \E failAt \in FailPlaces(s) : Stop(s, failAt, 0)
    \/ \E s \in Insts : \E failAt \in FailPlaces(s) : Clean(s, failAt, 0)
    \/ \E s \in Insts : ScratchDir(s)
    \/ \E s \in Insts : Close(s)

SpecLife == InitClean /\ [][NextLife]_vars

(***************************************************************************)
(* SpecTime: the lifecycle of one service on a clock that advances between *)
(* the calls and within them.                                              *)
(***************************************************************************)
NextTime ==
    \/ /\ Len(inst) < 1
       /\ \E num_nodes \in {Some(1), Some(2)} :
             Construct("A", num_nodes, None,
                       LowestAlloc(avail, setup_node_spec(num_nodes, None).value))
    \/ \E s \in Insts : AllocateNodes(s, LowestAlloc(avail, inst[s].node_spec))
    \/ \E s \in Insts : Free(s)
    \/ \E s \in Insts : \E failAt \in FailPlaces(s), d \in Steps : Start(s, failAt, d)
    \/ \E s \in Insts : \E need \in Needs(s, {0, MaxNeed}) : Wait(s, 1, need)
    \/ \E s \in Insts : \E failAt \in FailPlaces(s), d \in Steps : Stop(s, failAt, d)
    \/ \E s \in Insts : \E failAt \in FailPlaces(s), d \in Steps : Clean(s, failAt, d)
    \/ Tick

SpecTime == InitClean /\ [][NextTime]_vars

(***************************************************************************)
(* SpecWait: wait() on one service with every timeout and every duration  *)
(* of the nodes' work.                                                     *)
(***************************************************************************)
NextWait ==
    \/ /\ Len(inst) < 1
       /\ \E args \in FewArgs :
             Construct("A", args[1], args[2],
                       LowestAlloc(avail, setup_node_spec(args[1], args[2]).value))
    \/ \E s \in Insts : \E timeout_sec \in 0..MaxTimeout, need \in Needs(s, 0..MaxNeed) :
             Wait(s, timeout_sec, need)
    \/ Tick

SpecWait == InitClean /\ [][NextWait]_vars

(***************************************************************************)
(* SpecOrder: services of two types constructed one after the other into   *)
(* one registry; nodes are freed so that later constructions find some.    *)
(***************************************************************************)
NextOrder ==
    \/ /\ Len(inst) < MaxOrder
       /\ \E ty \in Types :
             Construct(ty, Some(1), None,
                       LowestAlloc(avail, setup_node_spec(Some(1), None).value))
    \/ \E s \in Insts : Free(s)

SpecOrder == InitClean /\ [][NextOrder]_vars

(***************************************************************************)
(* SpecPar: one run() or run_parallel() over each list of different live   *)
(* services; a start_node or stop_node may raise, the calls take time on   *)
(* the clock, a node's work may outlast wait()'s default timeout.          *)
(***************************************************************************)
NextPar ==
    \/ /\ Len(inst) < MaxPar
       /\ \E ty \in Types :
             Construct(ty, Some(1), None,
                       LowestAlloc(avail, setup_node_spec(Some(1), None).value))
    \/ /\ rp.phase = "idle"
       /\ \E args \in DistinctLists({s \in Insts : Live(s)}, MaxPar) \cup {<<>>} :
             RunParallel(args)
    \/ /\ rp.phase = "idle"
       /\ \E s \in Insts : Run(s)
    \/ /\ rp.phase = "start"
       /\ \E failAt \in 0..1, d \in Steps : RPStart(failAt, d)
    \/ /\ rp.phase = "wait"
       /\ \E need \in Needs(rp.args[rp.i], {0, DefaultTimeout + 1}) : RPWait(need)
    \/ /\ rp.phase = "stop"
       /\ \E failAt \in 0..1, d \in Steps : RPStop(failAt, d)

SpecPar == InitClean /\ [][NextPar]_vars

(***************************************************************************)
(* SpecHooks: a start(), stop() or wait() call on a service just            *)
(* constructed, for every set of hooks its class overrides, every set of   *)
(* hook calls that raise and every time the call takes.                    *)
(***************************************************************************)
\* The classes: all hooks overridden, all but start_node and/or stop_node, all but
\* clean_node, none.
Classes ==
    {Hooks \ missing : missing \in SUBSET {"start_node", "stop_node"}}
       \cup {Hooks \ {"clean_node"}, {}}

\* Up to two hook calls of start() that raise; the stop_node calls of stop() that do.
StartRaises(s) ==
    {raises \in SUBSET ({"start_node", "stop_node", "clean_node"} \X DOMAIN inst[s].nodes) :
        Cardinality(raises) <= 2}
StopRaises(s) == SUBSET ({"stop_node"} \X DOMAIN inst[s].nodes)

NextHooks ==
    \/ /\ Len(inst) < 1
       /\ \E args \in {<<Some(MaxCount), None>>, <<None, Some((LINUX :> 0))>>} :
             Construct("A", args[1], args[2],
                       LowestAlloc(avail, setup_node_spec(args[1], args[2]).value))
    \/ /\ last.op = "__init__"
       /\ \E s \in Insts : \E impl \in Classes, raises \in StartRaises(s), d \in Steps :
             StartHooks(s, impl, raises, d)
    \/ /\ last.op = "__init__"
       /\ \E s \in Insts : \E impl \in Classes, raises \in StopRaises(s), d \in Steps :
             StopHooks(s, impl, raises, d)
    \/ /\ last.op = "__init__"
       /\ \E s \in Insts : \E timeout_sec \in 0..MaxTimeout :
             WaitUnimplemented(s, timeout_sec)

SpecHooks == InitClean /\ [][NextHooks]_vars

(***************************************************************************)
(* The claims.                                                             *)
(***************************************************************************)
\* The call that this step made is `op` on instance s.
Made(op, s) == last'.op = op /\ last'.svc = s

\* The node request of constructor arguments <<num_nodes, node_spec>>: a mapping
\* with supported keys, or else a count of at least one.
ValidRequest(args) ==
    IF ~IsNone(args[2])
    THEN DOMAIN Val(args[2]) # {} /\ DOMAIN Val(args[2]) \subseteq SUPPORTED_OS_TYPES
    ELSE ~IsNone(args[1]) /\ Val(args[1]) >= 1
RequestCount(args) ==
    IF ~IsNone(args[2]) THEN TotalCount(Val(args[2])) ELSE Val(args[1])

C1Step ==
    /\ (last'.op = "__init__" /\ last'.result = "ok" /\ ValidRequest(last'.args))
          => /\ Len(inst'[last'.svc].nodes) = RequestCount(last'.args)
             /\ TotalCount(inst'[last'.svc].node_spec) = RequestCount(last'.args)
    /\ \A s \in DOMAIN inst :
          (/\ Live(s)
           /\ Len(inst[s].nodes) = TotalCount(inst[s].node_spec)
           /\ ~Made("free", s))
             => /\ Len(inst'[s].nodes) = Len(inst[s].nodes)
                /\ inst'[s].node_spec = inst[s].node_spec

\* C1: when the constructor returns for a valid request of N nodes (a count N, or
\* a mapping whose counts sum to N), the instance's nodes sequence has length N,
\* and every call other than free() on the instance leaves it at that length.
C1_LengthIsRequestUntilFree == [][C1Step]_vars

\* A service asked for one linux and one windows node holds both after a stop().
C1_Witness ==
    /\ last.op = "stop" /\ Live(1)
    /\ inst[1].node_spec = (LINUX :> 1) @@ (WINDOWS :> 1)
    /\ Len(inst[1].nodes) = 2

C2Refused(s) ==
    /\ last'.result = "AlreadyAllocated"
    /\ ~last'.out.requested
    /\ inst'[s].nodes = inst[s].nodes
    /\ nlogger' = nlogger
    /\ avail' = avail

\* C2 as stated: once allocation has succeeded on an instance and no free() has
\* followed, every allocate_nodes() call fails with the already-allocated error,
\* asks the cluster for nothing and leaves the nodes and the logger slots alone.
C2_AsStated ==
    [][\A s \in DOMAIN inst :
          (hist[s].held /\ Made("allocate_nodes", s)) => C2Refused(s)]_vars

\* C2 amended: the same, for an instance that holds at least one node.
C2_RefusedWhileHoldingNodes ==
    [][\A s \in DOMAIN inst :
          (hist[s].held /\ Len(inst[s].nodes) > 0 /\ Made("allocate_nodes", s))
             => C2Refused(s)]_vars

\* A second allocate_nodes() on an instance holding nodes has been refused.
C2_Witness ==
    /\ last.op = "allocate_nodes" /\ last.result = "AlreadyAllocated"
    /\ hist[last.svc].held /\ Len(inst[last.svc].nodes) > 0

C3Step ==
    \A s \in DOMAIN inst' :
       ((Made("__init__", s) \/ Made("allocate_nodes", s))
           /\ last'.result \in {"ok", "DirtyNode"})
          => LET got == last'.out.got
             IN /\ (\E i \in DOMAIN got : nlogger[got[i]] # NoLogger)
                      => last'.result = "DirtyNode"
                /\ last'.result = "ok"
                      => \A i \in DOMAIN got : /\ nlogger[got[i]] = NoLogger
                                              /\ nlogger'[got[i]] = CtxLogger

\* C3: when the cluster returns a node whose logger slot is not null, the
\* constructor or allocate_nodes() call fails with the dirty-node error; the call
\* succeeds only if every returned node had a null slot, and then every returned
\* node's slot is bound to the context's logger.
C3_DirtyNodeFails == [][C3Step]_vars

\* An allocation failed on its second node, after binding the first one's slot.
C3_Witness ==
    /\ last.result = "DirtyNode"
    /\ Len(last.out.got) = 2
    /\ nlogger[last.out.got[1]] = CtxLogger
    /\ nlogger[last.out.got[2]] = StaleLogger

C7Step ==
    /\ \A s \in DOMAIN inst :
          /\ Made("free", s) => inst'[s].nodes = <<>>
          /\ Live(s) => to_json(s)'.nodes = to_json(s).nodes
    /\ \A s \in DOMAIN inst' :
          (Made("__init__", s) /\ last'.result = "ok" /\ s \notin DOMAIN inst)
             => to_json(s)'.nodes =
                   [i \in DOMAIN inst'[s].nodes |-> AccountStr(inst'[s].nodes[i])]

\* C7: free() leaves the nodes sequence empty; the "nodes" entry of to_json() is
\* the identifiers of the nodes allocated in the constructor, and no later call
\* (start, wait, stop, clean, free, close, allocate_nodes) changes it.
C7_FormerlyAllocatedKept == [][C7Step]_vars

\* After free() and a new allocate_nodes() the instance holds other nodes than
\* the ones to_json() reports.
C7_Witness ==
    /\ last.op = "allocate_nodes" /\ last.result = "ok" /\ Live(1)
    /\ inst[1].nodes # <<>>
    /\ to_json(1).nodes # [i \in DOMAIN inst[1].nodes |-> AccountStr(inst[1].nodes[i])]

\* What close() may do: remove the instance's scratch directory, if it was made,
\* and nothing else; nothing at all when close() has removed it before.
C9Close(s) ==
    Made("close", s)
       => /\ inst[s].scratch # 0 => inst[s].scratch \notin fs'
          /\ fs \ fs' \subseteq {inst[s].scratch}
          /\ fs' \subseteq fs
          /\ inst[s].scratch = 0 => fs' = fs
          /\ hist[s].closed => fs' = fs
          /\ inst' = inst

\* An access returns the path an earlier access returned.
C9SamePath(s) ==
    (Made("local_scratch_dir", s) /\ inst[s].scratch # 0)
       => last'.out.path = inst[s].scratch

\* C9 as stated: close() removes the scratch directory iff it was made, a second
\* close() changes nothing, and from the first access on every access returns
\* the same path, which names an existing directory.
C9_AsStated ==
    [][\A s \in DOMAIN inst :
          /\ C9Close(s)
          /\ C9SamePath(s)
          /\ Made("local_scratch_dir", s) => last'.out.exists]_vars

\* C9 amended: the same, but the path an access returns names an existing
\* directory only as long as close() has not been called since the first access;
\* after that every access returns the path of the removed directory.
C9_SamePathExistsUntilClose ==
    [][\A s \in DOMAIN inst :
          /\ C9Close(s)
          /\ C9SamePath(s)
          /\ Made("local_scratch_dir", s)
                => (last'.out.exists <=> ~hist[s].closed)]_vars

\* An access after close() has returned the path of the removed directory.
C9_Witness ==
    /\ last.op = "local_scratch_dir"
    /\ ~last.out.exists
    /\ hist[last.svc].closed
    /\ last.out.path = inst[last.svc].scratch

\* C10 as stated: setup_node_spec(count, mapping) fails exactly when neither is
\* supplied or the mapping has an unsupported key; otherwise it returns
\* {linux: count} when only a count is supplied and the mapping itself whenever a
\* mapping is supplied.
C10_AsStated ==
    last.op = "__init__"
       => LET num_nodes == last.args[1]
              node_spec == last.args[2]
              fails == last.result = "ConfigurationError"
              value == inst[last.svc].node_spec
          IN /\ fails <=> \/ IsNone(num_nodes) /\ IsNone(node_spec)
                          \/ /\ ~IsNone(node_spec)
                             /\ ~(DOMAIN Val(node_spec) \subseteq SUPPORTED_OS_TYPES)
             /\ (~fails /\ IsNone(node_spec)) => value = (LINUX :> Val(num_nodes))
             /\ (~fails /\ ~IsNone(node_spec)) => value = Val(node_spec)

C5Step ==
    \A s \in DOMAIN inst :
       /\ inst[s].start_time >= 0 => inst'[s].start_time = inst[s].start_time
       /\ inst[s].start_duration >= 0
             => inst'[s].start_duration = inst[s].start_duration
       /\ inst'[s].start_time # inst[s].start_time
             => Made("start", s) /\ ~hist[s].start_called
       /\ inst'[s].start_duration # inst[s].start_duration
             => Made("start", s) /\ last'.result = "ok" /\ ~hist[s].start_completed
       /\ (Made("start", s) /\ ~hist[s].start_called)
             => inst'[s].start_time = now
       /\ (Made("start", s) /\ last'.result = "ok" /\ ~hist[s].start_completed)
             => inst'[s].start_duration = now' - inst'[s].start_time

\* C5: the start time is written by the first start() call only and the start
\* duration by the first start() call that completes only; once set, no call
\* (start, wait, stop, clean, free, allocate_nodes) changes either.
C5_StartStampedOnce == [][C5Step]_vars

\* A start() call completed after an earlier one failed in start_node: the start
\* duration is longer than any one call, so it counts from the first call.
C5_Witness ==
    /\ last.op = "start" /\ last.result = "ok"
    /\ inst[1].start_duration > MaxStep

\* C4: after wait(T) on an instance with several nodes, where one node's work
\* needs longer than T and another's needs less than T, the call has failed with
\* TimeoutError and the nodes listed are exactly those that need longer than T.
C4_AsStated ==
    (/\ last.op = "wait"
     /\ Len(inst[last.svc].nodes) >= 2
     /\ \E i \in DOMAIN last.args[2] : last.args[2][i] > last.args[1]
     /\ \E i \in DOMAIN last.args[2] : last.args[2][i] < last.args[1])
    => /\ last.result = "TimeoutError"
       /\ Range(last.out.unfinished)
             = {inst[last.svc].nodes[i] : i \in {j \in DOMAIN last.args[2] :
                                                   last.args[2][j] > last.args[1]}}

\* The number of instances of the type of services[k] registered before it.
EarlierPeers(k) ==
    Cardinality({j \in 1..(k - 1) : inst[services[j]].type = inst[services[k]].type})

\* C6: in every state, the order index of a registered instance is the number of
\* same-typed instances registered before it, and so were the values its
\* constructor read before registering it and right after.
C6_OrderIsCountOfEarlierPeers ==
    \A k \in DOMAIN services :
       /\ to_json(services[k]).order = EarlierPeers(k)
       /\ hist[services[k]].order_early = EarlierPeers(k)
       /\ hist[services[k]].order_registered = EarlierPeers(k)

\* Types A, B, A, B, A registered in that sequence, with orders 0, 0, 1, 1, 2.
C6_Witness ==
    /\ Len(services) = 5
    /\ [k \in 1..5 |-> inst[services[k]].type] = <<"A", "B", "A", "B", "A">>
    /\ [k \in 1..5 |-> to_json(services[k]).order] = <<0, 0, 1, 1, 2>>
    /\ [k \in 1..5 |-> hist[services[k]].order_early] = <<0, 0, 1, 1, 2>>

\* The calls run_parallel(args) is to make when none fails: the k-th of them.
C8Expected(args, k) ==
    LET n == Len(args)
    IN << IF k <= n THEN "start" ELSE IF k <= 2 * n THEN "wait" ELSE "stop",
          args[((k - 1) % n) + 1] >>

\* C8: while no call of a run_parallel(s1, ..., sn) has failed, the calls made so
\* far are the first of: start() on s1..sn in that order, then wait() on s1..sn,
\* then stop() on s1..sn; when run_parallel returns all 3n have been made.
C8_StartsThenWaitsThenStops ==
    rp.phase \in {"start", "wait", "stop", "done"}
       => /\ Len(rp.log) <= 3 * Len(rp.args)
          /\ \A k \in DOMAIN rp.log :
                /\ <<rp.log[k][1], rp.log[k][2]>> = C8Expected(rp.args, k)
                /\ rp.log[k][3] = "ok"
          /\ rp.phase = "done" => Len(rp.log) = 3 * Len(rp.args)
          /\ rp.phase # "done" => Len(rp.log) < 3 * Len(rp.args)

\* run_parallel over two services has returned.
C8_Witness ==
    /\ rp.phase = "done"
    /\ Len(rp.args) = 2
    /\ [k \in 1..6 |-> rp.log[k][1]]
          = <<"start", "start", "wait", "wait", "stop", "stop">>

\* The time wait() has spent when it reaches its i-th node: the longest work of
\* the nodes before it (a wait_node call never outlasts the deadline).
C11Spent(need, i) ==
    LET before == {0} \cup {need[j] : j \in 1..(i - 1)}
    IN CHOOSE x \in before : \A y \in before : y <= x

C11Called(T, need) ==
    SelectSeq([i \in DOMAIN need |-> i], LAMBDA i : C11Spent(need, i) < T)

C11Unfinished(T, need) ==
    SelectSeq([i \in DOMAIN need |-> i],
              LAMBDA i : ~(C11Spent(need, i) < T) \/ need[i] > T)

\* C11: after wait(T), wait_node was called for exactly the nodes reached before
\* the one deadline, each with the time then remaining to it; the unfinished nodes
\* are, in the order checked, those reached at or after the deadline and those
\* whose wait_node returned false; the call failed with TimeoutError exactly when
\* there is such a node.
C11_OneDeadline ==
    last.op = "wait" =>
       LET T == last.args[1]
           need == last.args[2]
           nodes == inst[last.svc].nodes
           called == C11Called(T, need)
           unfinished == C11Unfinished(T, need)
       IN /\ last.out.calls
                = [k \in DOMAIN called |->
                      <<nodes[called[k]], T - C11Spent(need, called[k])>>]
          /\ last.out.unfinished = [k \in DOMAIN unfinished |-> nodes[unfinished[k]]]
          /\ last.result = "TimeoutError" <=> unfinished # <<>>
          /\ last.result = "ok" <=> unfinished = <<>>

\* The first node's wait_node returned false at the deadline and the second node
\* was marked unfinished without a call.
C11_Witness ==
    /\ last.op = "wait" /\ last.result = "TimeoutError"
    /\ Len(inst[last.svc].nodes) = 2
    /\ last.args[1] > 0
    /\ Len(last.out.calls) = 1
    /\ last.out.unfinished = inst[last.svc].nodes

\* C12: in every state no node is in the nodes sequences of two different
\* instances, whether or not their constructors returned.
C12_NoNodeHeldTwice ==
    \A s1, s2 \in DOMAIN inst :
       s1 # s2 => Range(inst[s1].nodes) \cap Range(inst[s2].nodes) = {}

\* A node that one instance held and freed is now held by another instance, next
\* to an instance holding nodes of its own.
C12_Witness ==
    \E s1, s2 \in DOMAIN inst :
       /\ s1 # s2
       /\ inst[s1].nodes = <<>>
       /\ \E n \in Range(inst[s2].nodes) : AccountStr(n) \in Range(inst[s1].formerly)
       /\ last.op = "allocate_nodes" /\ last.svc = s2 /\ last.result = "ok"

\* C13, as stated: every instance whose construction succeeded has a node spec
\* that is non-empty, with every count greater than 0 and every key a supported OS.
C13_AsStated ==
    \A s \in DOMAIN inst :
       Live(s) => /\ DOMAIN inst[s].node_spec # {}
                  /\ \A os_type \in DOMAIN inst[s].node_spec :
                        /\ inst[s].node_spec[os_type] > 0
                        /\ os_type \in SUPPORTED_OS_TYPES

C13Step ==
    \A s \in DOMAIN inst' :
       Live(s)' =>
          /\ DOMAIN inst'[s].node_spec # {}
          /\ DOMAIN inst'[s].node_spec \subseteq SUPPORTED_OS_TYPES
          /\ (s \in DOMAIN inst /\ Live(s)) => inst'[s].node_spec = inst[s].node_spec

\* C13, amended: after every step, every instance whose construction succeeded has
\* a node spec that is non-empty and whose keys are all supported OSs (nothing is
\* said of its counts); and the step left the node spec of every such instance as
\* it was.
C13_NonEmptySupportedKeys == [][C13Step]_vars

\* A constructed instance whose node spec has a count of 0 has been through other
\* calls.
C13_Witness ==
    /\ \E s \in DOMAIN inst :
          /\ Live(s)
          /\ \E os_type \in DOMAIN inst[s].node_spec : inst[s].node_spec[os_type] = 0
          /\ \E os_type \in DOMAIN inst[s].node_spec : inst[s].node_spec[os_type] > 0
    /\ last.op = "stop"

\* C14, as stated: every stop() call, whether it completes or fails in stop_node,
\* leaves as stop time the time it was entered at and as stop duration the time
\* that passed within it.
C14_AsStated ==
    [][\A s \in DOMAIN inst :
          (Made("stop", s) /\ <<inst, last>>' # <<inst, last>>)
             => /\ inst'[s].stop_time = now
                /\ inst'[s].stop_duration = now' - now]_vars

\* The last call reached, on some node, a required hook that the class of the
\* instance does not override.
C15Reached ==
    \/ /\ last.op \in {"start", "stop"}
       /\ \E k \in DOMAIN last.out.calls :
             /\ last.out.calls[k][1] \in {"start_node", "stop_node"}
             /\ last.out.calls[k][3] = "NotImplementedError"
    \/ /\ last.op = "wait"
       /\ last.out.calls # <<>>

\* C15, as stated: a start(), wait() or stop() call that reached, on at least one
\* node, a required hook the class does not override has failed with
\* NotImplementedError.
C15_AsStated == C15Reached => last.result = "NotImplementedError"

\* C17: after start() on nodes n1..nk, the hook calls made are stop_node(n1),
\* clean_node(n1), ..., stop_node(nk), clean_node(nk), whatever their outcomes,
\* followed by start_node on n1, n2, ... in that order up to and including the
\* first that raised; start() raised exactly what that start_node raised, and
\* returned normally, with every node started, if none did.
C17_PrepassThenStarts ==
    last.op = "start" =>
       LET nodes == inst[last.svc].nodes
           n == Len(nodes)
           calls == last.out.calls
           started == Len(calls) - 2 * n
       IN /\ started \in 0..n
          /\ \A i \in 1..n :
                /\ calls[2 * i - 1][1] = "stop_node" /\ calls[2 * i - 1][2] = nodes[i]
                /\ calls[2 * i][1] = "clean_node" /\ calls[2 * i][2] = nodes[i]
          /\ \A k \in 1..started :
                /\ calls[2 * n + k][1] = "start_node" /\ calls[2 * n + k][2] = nodes[k]
                /\ k < started => calls[2 * n + k][3] = "ok"
          /\ IF started > 0 /\ calls[2 * n + started][3] # "ok"
             THEN last.result = calls[2 * n + started][3]
             ELSE last.result = "ok" /\ started = n

\* stop_node and clean_node raised on the first of two nodes, the pre-pass went on
\* to the second, and both nodes were started.
C17_Witness ==
    /\ last.op = "start" /\ last.result = "ok"
    /\ Len(inst[last.svc].nodes) = 2
    /\ Len(last.out.calls) = 6
    /\ last.out.calls[1][3] = "HookError"
    /\ last.out.calls[2][3] = "HookError"

\* C16, as stated: a start() call on an instance that holds no nodes allocates
\* them, so that the instance holds the nodes its node spec asks for when the
\* call has gone through its start_node loop.
C16_AsStated ==
    [][\A s \in DOMAIN inst :
          (Made("start", s) /\ last' # last /\ inst[s].nodes = <<>>)
             => Len(inst'[s].nodes) = TotalCount(inst[s].node_spec)]_vars

C18Step ==
    /\ \A s \in DOMAIN inst :
          Made("free", s) =>
             /\ Range(inst[s].nodes) \cap avail = {}
             /\ last'.out.returned = inst[s].nodes
             /\ avail' = avail \cup Range(inst[s].nodes)
             /\ \A n \in Range(inst[s].nodes) : nlogger'[n] = NoLogger
             /\ \A n \in Nodes \ Range(inst[s].nodes) : nlogger'[n] = nlogger[n]
             /\ inst'[s].nodes = <<>>
             /\ inst[s].nodes = <<>> => UNCHANGED <<inst, services, avail, nlogger>>
    /\ \A n \in avail' : nlogger'[n] # CtxLogger
    /\ (last'.op \in {"__init__", "allocate_nodes"} /\ last'.result = "DirtyNode")
          => \E n \in Range(last'.out.got) : nlogger[n] = StaleLogger

\* C18: a free() step clears the logger of every node the instance holds and hands
\* exactly those nodes, none of them free before, back to the cluster, leaving
\* the instance without nodes; on an instance without nodes it changes nothing.
\* No free node carries a service's logger, and an allocation fails the dirty-node
\* check only on a node whose logger was never a service's.
C18_FreeClearsAndReturns == [][C18Step]_vars

\* A constructor got, and passed the dirty-node check on, a node that another
\* instance had held and freed.
C18_Witness ==
    /\ last.op = "__init__" /\ last.result = "ok"
    /\ \E s1 \in DOMAIN inst :
          /\ s1 # last.svc
          /\ inst[s1].nodes = <<>>
          /\ \E n \in Range(last.out.got) : AccountStr(n) \in Range(inst[s1].formerly)

\* C19, as stated: every node the cluster has handed out and not got back is in
\* the nodes sequence of an instance that is in the registry.
C19_AsStated ==
    \A n \in Nodes \ avail :
       \E s \in Range(services) : n \in Range(inst[s].nodes)

\* C20: in a run() or run_parallel(s1, ..., sn), a wait() that failed with
\* TimeoutError is the last call made: it was on some sk, after start() on
\* s1..sn and wait() on s1..sk-1, the run has raised, and no stop() was called.
C20_TimeoutEndsRun ==
    \A k \in DOMAIN rp.log :
       (rp.log[k][1] = "wait" /\ rp.log[k][3] = "TimeoutError")
          => /\ k = Len(rp.log)
             /\ rp.phase = "raised"
             /\ k > Len(rp.args) /\ k <= 2 * Len(rp.args)
             /\ rp.log[k][2] = rp.args[k - Len(rp.args)]
             /\ \A j \in 1..(k - 1) :
                   /\ <<rp.log[j][1], rp.log[j][2]>> = C8Expected(rp.args, j)
                   /\ rp.log[j][3] = "ok"
             /\ \A j \in DOMAIN rp.log : rp.log[j][1] # "stop"

\* run_parallel over two services started both, and the wait() on the first timed
\* out: no wait() on the second, no stop().
C20_Witness ==
    /\ rp.phase = "raised"
    /\ Len(rp.args) = 2
    /\ Len(rp.log) = 3
    /\ rp.log[3] = <<"wait", rp.args[1], "TimeoutError">>
    /\ last.op = "wait" /\ last.result = "TimeoutError"

====
